---- MODULE Spec2Model ----
(***************************************************************************)
(* A model of the DAP session engine of src/src/rust-debugger.ts           *)
(* (class RustDebugger) and of its frame decoder.                          *)
(*                                                                         *)
(* Scheduling follows the Node.js event loop.  A macrotask is one of: a    *)
(* caller invoking a method (its synchronous part, up to the first await), *)
(* one stdout 'data' callback (the whole parseMessages loop, every         *)
(* complete frame of the buffer handled back to back), one setTimeout      *)
(* callback.  Promise continuations are microtasks: they are queued by     *)
(* resolve/reject and run, in order, only after the running macrotask has  *)
(* ended and before the next one starts.                                   *)
(***************************************************************************)
EXTENDS Integers, Sequences, FiniteSets, TLC

\* ---------------------------------------------------------------- bounds
\* Requests one RustDebugger instance may send in a run of the model.
MaxSeq == 6
\* Pieces (frames or garbage) an adapter byte stream is assembled from.
MaxPieces == 2
\* Requests a run of getVariables() alone may send (SpecVariables).
MaxVariablesSeq == 5
\* RustDebugger instances the tool layer may create in a run of the model.
MaxInstances == 3

\* ------------------------------------------------------------- constants
\* `threadId?: number`: the field before any assignment.
Undefined == -1
\* SetBreakpointConfig.line values the caller passes.
Lines == {10}
ThreadIds == {0, 7}
Commands == {"initialize", "launch", "configurationDone", "continue", "next",
             "stackTrace", "scopes", "variables", "setBreakpoints", "disconnect"}
\* Response bodies: the list the command's response carries (stackFrames ids,
\* scopes' variablesReference, variables, breakpoints' lines; 0 = omitted).
Bodies == {<< >>, <<3>>, <<0, 3>>}
\* The same with a list of three, for getVariables() run alone.
BodiesWide == Bodies \cup {<<5, 0, 3>>}

VARIABLES
  codelldbProcess,   \* "null" | "proc": the ChildProcess handle
  alive,             \* the adapter subprocess is running
  requestSeq,        \* next sequence number
  pendingRequests,   \* seq -> [command]: the Map of resolve/reject pairs
  timers,            \* armed setTimeout callbacks, in creation order
  threadId, frameId,
  listeners,         \* event name -> listeners in registration order
  stoppedPromise,    \* launch's stoppedPromise: none | pending | awaited | resolved
  seqLog,            \* the sequence numbers sendRequest assigned, in send order
  stdin,             \* the sequence numbers of the frames written to the adapter
  lastSent,          \* the latest sendRequest call: [seq, command, arg, written]
  op, pc, result,    \* the caller's operation in flight, its await point, its outcome
  locals,            \* getVariables' scopes still to visit and allVariables
  microtasks,        \* queued promise reactions
  parsing,           \* a stdout 'data' callback is inside its parseMessages loop
  settled,           \* seq -> how often the request's resolve/reject was called,
                     \* over the sequence numbers a run of the model may assign
  launchTrace,       \* what launch() sent, what the adapter answered, how it ended
  lastMessage,       \* the parse loop just dropped a response: none | late | unknown
  stoppedSinceResponse, \* a stopped event came after the continue/next response
  prior,             \* handle, thread id and frame id when the latest operation was called
  exchanges,         \* the exchanges completed by the getVariables() in flight
  input, delivered, messageBuffer, decoded,  \* the frame decoder (SpecCodec)
  instances,         \* how many RustDebugger instances were constructed
  rustDebugger,      \* the tool layer's instance: 0 = null, else its number
  handles,           \* instance -> "null" | "proc": its codelldbProcess
  running,           \* the instances whose adapter subprocess is alive
  launched,          \* instance -> how its launch() ended: none | pending | success | failure
  toolPc, toolResult \* the tool handler in flight and the text it returned

sessionVars == <<codelldbProcess, alive, requestSeq, pendingRequests, timers,
                 threadId, frameId, listeners, stoppedPromise, seqLog, stdin,
                 lastSent, op, pc, result, locals, microtasks, parsing, settled,
                 launchTrace, lastMessage, stoppedSinceResponse, prior,
                 exchanges>>
codecVars == <<input, delivered, messageBuffer, decoded>>
toolVars == <<instances, rustDebugger, handles, running, launched, toolPc, toolResult>>
vars == <<sessionVars, codecVars, toolVars>>

\* ------------------------------------------------------------ outcomes
Success(data) == [success |-> TRUE, error |-> "", data |-> data]
Failure(msg) == [success |-> FALSE, error |-> msg, data |-> << >>]
NoResult == [success |-> FALSE, error |-> "(pending)", data |-> << >>]

NoThreadIdError == "No thread ID"
NotFoundError == "CodeLLDB not found"
TimeoutMessage(command) == "Request " \o command \o " timed out"
FailureMessage(message) == IF message = "" THEN "Request failed" ELSE message

\* A faulty variant: only 0 counts as no thread id.
FalsyZeroOnly(t) == t = 0
\* `!this.threadId`: undefined and 0 are both falsy.
Falsy(t) == t = Undefined \/ t = 0

\* ------------------------------------------------------------ messages
\* A decoded DebugProtocol.ProtocolMessage.
Response(rs, ok, msg, body) ==
  [type |-> "response", request_seq |-> rs, success |-> ok, message |-> msg,
   body |-> body, event |-> "", threadId |-> Undefined]
Event(name, tid) ==
  [type |-> "event", request_seq |-> 0, success |-> FALSE, message |-> "",
   body |-> << >>, event |-> name, threadId |-> tid]

\* Whether the message the parse loop handled last was a response whose
\* request_seq names no Pending Request: "late" when that request was sent
\* (and has been settled since), "unknown" when it never was.
NoMessage == "none"
Handled(m) ==
  IF m.type = "event" \/ m.request_seq \in DOMAIN pendingRequests THEN "none"
  ELSE IF m.request_seq < requestSeq THEN "late"
  ELSE "unknown"

\* The lists a success response to `command` may carry, out of B.
BodiesIn(B, command) ==
  IF command \in {"stackTrace", "scopes", "variables", "setBreakpoints"}
  THEN B ELSE {<< >>}

BodiesFor(command) == BodiesIn(Bodies, command)

\* What the adapter may write next.  A response to a request that is not
\* pending is dropped whatever it carries, so one representative stands for
\* all of them; sequence number requestSeq stands for "never sent".
MessagesOver(B) ==
  LET top == IF requestSeq <= Len(settled) THEN requestSeq ELSE Len(settled) IN
  UNION {
    IF rs \in DOMAIN pendingRequests
    THEN {Response(rs, TRUE, "", b) : b \in BodiesIn(B, pendingRequests[rs].command)}
         \cup {Response(rs, FALSE, msg, << >>) : msg \in {"", "adapter error"}}
    ELSE {Response(rs, TRUE, "", << >>)}
    : rs \in 1..top }
  \cup {Event("initialized", Undefined)}
  \cup {Event("stopped", t) : t \in ThreadIds}

AdapterMessages == MessagesOver(Bodies)

\* ---------------------------------------------------- request correlator
Quiescent == ~parsing /\ microtasks = << >>

\* A faulty variant: the counter is read but not advanced.
NextRequestSeqStuck == requestSeq
\* `const seq = this.requestSeq++`
NextRequestSeq == requestSeq + 1

\* `this.pendingRequests.set(seq, { resolve, reject })`
PendingSet(seq, command) ==
  [s \in DOMAIN pendingRequests \cup {seq} |->
     IF s = seq THEN [command |-> command] ELSE pendingRequests[s]]

\* A faulty variant: the entry is left in the table.
PendingDeleteKeep(seq) == pendingRequests
\* `this.pendingRequests.delete(response.request_seq)`
PendingDelete(seq) ==
  [s \in DOMAIN pendingRequests \ {seq} |-> pendingRequests[s]]

\* A faulty variant: the expired entry is left in the table.
TimerDeleteKeep(seq) == pendingRequests
\* `this.pendingRequests.delete(seq)` in the timeout callback
TimerDelete(seq) ==
  [s \in DOMAIN pendingRequests \ {seq} |-> pendingRequests[s]]

\* A faulty variant: an unknown request_seq falls back to the oldest entry.
PendingGetAny(rs) ==
  IF rs \in DOMAIN pendingRequests THEN {rs}
  ELSE IF DOMAIN pendingRequests = {} THEN {}
  ELSE {CHOOSE s \in DOMAIN pendingRequests : \A u \in DOMAIN pendingRequests : s <= u}
\* `this.pendingRequests.get(response.request_seq)`: the entry, if any.
PendingGet(rs) == IF rs \in DOMAIN pendingRequests THEN {rs} ELSE {}

\* `this.pendingRequests.has(seq)` in the timeout callback
TimerHas(seq) == seq \in DOMAIN pendingRequests

Reaction(seq, command, ok, err, body) ==
  [k |-> "request", seq |-> seq, command |-> command, ok |-> ok, err |-> err,
   body |-> body]
EventReaction(k) ==
  [k |-> k, seq |-> 0, command |-> "", ok |-> TRUE, err |-> "", body |-> << >>]

\* A call of the request's resolve or reject.  A promise settles once: only
\* the first call queues the reaction of whoever awaits it.
SettledAfter(seq) == [settled EXCEPT ![seq] = IF @ < 2 THEN @ + 1 ELSE @]
MicrotasksAfterSettle(seq, r) ==
  IF settled[seq] = 0 THEN Append(microtasks, r) ELSE microtasks

\* sendRequest(command, args), with `proc` the process handle at the call.
sendRequest(command, arg, proc) ==
  /\ requestSeq <= Len(settled)
  /\ requestSeq' = NextRequestSeq
  /\ pendingRequests' = PendingSet(requestSeq, command)
  /\ seqLog' = Append(seqLog, requestSeq)
  /\ stdin' = IF proc # "null" THEN Append(stdin, requestSeq) ELSE stdin
  /\ lastSent' = [seq |-> requestSeq, command |-> command, arg |-> arg,
                  written |-> proc # "null"]
  /\ timers' = Append(timers, [seq |-> requestSeq, command |-> command])

NoSend == UNCHANGED <<requestSeq, pendingRequests, seqLog, stdin, lastSent, timers>>

\* ------------------------------------------------------- message handling
\* launch() has sent its `launch` / its `configurationDone` request.
SentLaunch == launchTrace.sent \in {"launch", "configurationDone"}
SentConfigurationDone == launchTrace.sent = "configurationDone"

\* The continue/next request of the continue()/stepOver() in flight, or last
\* returned, got its success response.
Responded ==
  /\ op \in {"continue", "stepOver"}
  /\ \/ pc = "stopped"
     \/ pc = "idle" /\ result.success
     \/ \E i \in 1..Len(microtasks) :
          /\ microtasks[i].k = "request" /\ microtasks[i].ok
          /\ microtasks[i].command \in {"continue", "next"}

\* handleMessage, response branch.
HandleResponse(m) ==
  LET hit == PendingGet(m.request_seq) IN
  /\ IF hit = {}
     THEN UNCHANGED <<pendingRequests, settled, microtasks, launchTrace>>
     ELSE LET s == CHOOSE x \in hit : TRUE
              cmd == pendingRequests[s].command
          IN /\ pendingRequests' = PendingDelete(m.request_seq)
             /\ settled' = SettledAfter(s)
             /\ microtasks' = MicrotasksAfterSettle(s,
                   Reaction(s, cmd, m.success,
                            IF m.success THEN "" ELSE FailureMessage(m.message),
                            m.body))
             /\ launchTrace' = [launchTrace EXCEPT
                  !.launchResponse =
                     IF cmd = "launch" /\ @ = "never"
                     THEN (IF launchTrace.initialized THEN "after" ELSE "before")
                     ELSE @,
                  !.launchFailed = @ \/ (cmd = "launch" /\ ~m.success),
                  !.acked =
                     IF m.success /\ cmd \in {"initialize", "configurationDone"}
                     THEN @ \cup {cmd} ELSE @]
  /\ UNCHANGED <<listeners, threadId, stoppedPromise, stoppedSinceResponse>>

RECURSIVE StoppedReactions(_)
\* What the listeners of 'stopped' queue, in registration order: launch's
\* onStopped resolves stoppedPromise, a once-listener of continue/stepOver
\* resolves the promise that method awaits.
StoppedReactions(ls) ==
  IF ls = << >> THEN << >>
  ELSE (IF Head(ls) = "onStopped"
        THEN (IF stoppedPromise = "awaited"
              THEN <<EventReaction("stoppedPromise")>> ELSE << >>)
        ELSE <<EventReaction("onceStopped")>>) \o StoppedReactions(Tail(ls))

\* A faulty variant: the thread id of the event is not stored.
OnStoppedThreadIdKeep(tid) == threadId
\* `this.threadId = body.threadId` in launch's onStopped
OnStoppedThreadId(tid) == tid

\* A faulty variant: listeners stay registered after they were invoked.
ListenersAfterEmitKept(ls) == ls
\* What is registered after an emit: a `once` listener is removed when it is
\* invoked, and launch's onStopped removes itself (`this.off('stopped', onStopped)`).
ListenersAfterEmit(ls) == << >>

\* handleMessage, event branch: `this.emit(event.event, event.body)`.
HandleEvent(m) ==
  /\ UNCHANGED <<pendingRequests, settled>>
  /\ IF m.event = "initialized"
     THEN /\ listeners' = [listeners EXCEPT !.initialized = ListenersAfterEmit(@)]
          /\ microtasks' = microtasks \o
               [i \in 1..Len(listeners.initialized) |-> EventReaction("initializedPromise")]
          /\ launchTrace' = IF SentLaunch
                            THEN [launchTrace EXCEPT !.initialized = TRUE]
                            ELSE launchTrace
          /\ UNCHANGED <<threadId, stoppedPromise, stoppedSinceResponse>>
     ELSE LET armed == \E i \in 1..Len(listeners.stopped) :
                          listeners.stopped[i] = "onStopped"
          IN /\ listeners' = [listeners EXCEPT !.stopped = ListenersAfterEmit(@)]
             /\ microtasks' = microtasks \o StoppedReactions(listeners.stopped)
             /\ threadId' = IF armed THEN OnStoppedThreadId(m.threadId) ELSE threadId
             /\ stoppedPromise' = IF armed THEN "resolved" ELSE stoppedPromise
             /\ launchTrace' =
                  IF SentConfigurationDone /\ launchTrace.stopped = Undefined
                  THEN [launchTrace EXCEPT
                          !.stopped = m.threadId,
                          !.earlyStop = "configurationDone" \notin launchTrace.acked]
                  ELSE launchTrace
             /\ stoppedSinceResponse' =
                  (stoppedSinceResponse \/ Responded)

handleMessage(m) ==
  /\ IF m.type = "response" THEN HandleResponse(m) ELSE HandleEvent(m)
  /\ lastMessage' = Handled(m)
  /\ UNCHANGED <<codelldbProcess, alive, requestSeq, timers, frameId, seqLog, stdin, lastSent, op,
                 pc, result, locals, codecVars, toolVars, prior, exchanges>>

\* The stdout 'data' callback: the first complete frame of a chunk.
StdoutData(m) ==
  /\ Quiescent /\ alive
  /\ handleMessage(m)
  /\ parsing' = TRUE

\* parseMessages' loop: the next complete frame of the same chunk.
ParseNext(m) ==
  /\ parsing
  /\ handleMessage(m)
  /\ parsing' = TRUE

\* parseMessages' loop ends: no further complete frame in the buffer.
ParseBreak ==
  /\ parsing
  /\ parsing' = FALSE
  /\ lastMessage' = NoMessage
  /\ UNCHANGED <<codelldbProcess, alive, requestSeq, pendingRequests, timers,
                 threadId, frameId, listeners, stoppedPromise, seqLog, stdin, lastSent, op, pc,
                 result, locals, microtasks, settled, launchTrace,
                 stoppedSinceResponse, codecVars, toolVars, prior, exchanges>>

\* The setTimeout callback of the oldest armed timer (every request arms one
\* of the same delay and none is ever cleared, so they fire in send order).
TimerFire ==
  /\ Quiescent /\ timers # << >>
  /\ LET t == Head(timers) IN
     /\ timers' = Tail(timers)
     /\ IF TimerHas(t.seq)
        THEN /\ pendingRequests' = TimerDelete(t.seq)
             /\ settled' = SettledAfter(t.seq)
             /\ microtasks' = MicrotasksAfterSettle(t.seq,
                   Reaction(t.seq, t.command, FALSE, TimeoutMessage(t.command), << >>))
        ELSE UNCHANGED <<pendingRequests, settled, microtasks>>
  /\ UNCHANGED <<codelldbProcess, alive, requestSeq, threadId, frameId, listeners,
                 stoppedPromise, seqLog, stdin, lastSent, op, pc, result, locals, parsing, launchTrace,
                 lastMessage, stoppedSinceResponse, codecVars, toolVars, prior, exchanges>>

\* The adapter subprocess exits on its own; the 'exit' handler only logs.
AdapterExit ==
  /\ Quiescent /\ alive
  /\ alive' = FALSE
  /\ UNCHANGED <<codelldbProcess, requestSeq, pendingRequests, timers, threadId,
                 frameId, listeners, stoppedPromise, seqLog, stdin, lastSent, op, pc, result, locals,
                 microtasks, parsing, settled, launchTrace, lastMessage,
                 stoppedSinceResponse,
                 codecVars, toolVars, prior, exchanges>>

\* ------------------------------------------------------ caller operations
NoLocals == [scopes |-> << >>, all |-> << >>, ref |-> 0]

\* What a call leaves alone besides the request correlator and its own outcome.
CallFrame ==
  /\ prior' = [process |-> codelldbProcess, threadId |-> threadId, frameId |-> frameId]
  /\ UNCHANGED <<threadId, frameId, listeners, stoppedPromise, locals, microtasks,
                 parsing, settled, lastMessage, codecVars, toolVars>>

\* launch(config), up to `await this.sendRequest('initialize', ...)`.  `found`
\* is whether CODELLDB_PATH or findCodeLLDB() names an adapter binary.  The
\* tool layer calls launch once per RustDebugger instance.
Launch(found) ==
  /\ Quiescent /\ pc = "idle" /\ ~launchTrace.called
  /\ op' = "launch"
  /\ launchTrace' = [launchTrace EXCEPT
                       !.called = TRUE,
                       !.sent = IF found THEN "initialize" ELSE @,
                       !.outcome = IF found THEN @ ELSE "failure"]
  /\ stoppedSinceResponse' = FALSE
  /\ IF ~found
     THEN /\ result' = Failure(NotFoundError)
          /\ pc' = "idle"
          /\ NoSend
          /\ UNCHANGED <<codelldbProcess, alive>>
     ELSE /\ codelldbProcess' = "proc"
          /\ alive' = TRUE
          /\ sendRequest("initialize", << >>, "proc")
          /\ pc' = "initialize"
          /\ result' = NoResult
  /\ UNCHANGED exchanges
  /\ CallFrame

\* The shape shared by continue() and stepOver(), up to the first await.
Resume(name, command) ==
  /\ Quiescent /\ pc = "idle"
  /\ op' = name
  /\ stoppedSinceResponse' = FALSE
  /\ IF Falsy(threadId)
     THEN /\ result' = Failure(NoThreadIdError)
          /\ pc' = "idle"
          /\ NoSend
     ELSE /\ sendRequest(command, <<threadId>>, codelldbProcess)
          /\ pc' = command
          /\ result' = NoResult
  /\ UNCHANGED <<codelldbProcess, alive, launchTrace>>
  /\ UNCHANGED exchanges
  /\ CallFrame

Continue == Resume("continue", "continue")

StepOver == Resume("stepOver", "next")

GetVariables ==
  /\ Quiescent /\ pc = "idle"
  /\ op' = "getVariables"
  /\ stoppedSinceResponse' = FALSE
  /\ IF Falsy(threadId)
     THEN /\ result' = Failure(NoThreadIdError)
          /\ pc' = "idle"
          /\ NoSend
     ELSE /\ sendRequest("stackTrace", <<threadId>>, codelldbProcess)
          /\ pc' = "stackTrace"
          /\ result' = NoResult
  /\ UNCHANGED <<codelldbProcess, alive, launchTrace>>
  /\ exchanges' = << >>
  /\ CallFrame

SetBreakpoint(line) ==
  /\ Quiescent /\ pc = "idle"
  /\ op' = "setBreakpoint"
  /\ stoppedSinceResponse' = FALSE
  /\ sendRequest("setBreakpoints", <<line>>, codelldbProcess)
  /\ pc' = "setBreakpoints"
  /\ result' = NoResult
  /\ UNCHANGED <<codelldbProcess, alive, launchTrace>>
  /\ UNCHANGED exchanges
  /\ CallFrame

Terminate ==
  /\ Quiescent /\ pc = "idle"
  /\ op' = "terminate"
  /\ stoppedSinceResponse' = FALSE
  /\ IF codelldbProcess # "null"
     THEN /\ sendRequest("disconnect", << >>, codelldbProcess)
          /\ pc' = "disconnect"
          /\ result' = NoResult
     ELSE /\ result' = Success(<< >>)
          /\ pc' = "idle"
          /\ NoSend
  /\ UNCHANGED <<codelldbProcess, alive, launchTrace>>
  /\ UNCHANGED exchanges
  /\ CallFrame

\* ------------------------------------------------ continuations (microtasks)
\* getVariables' exchanges so far, with the one whose response is being
\* consumed: the request as sent and the body of its response.
Answered ==
  Append(exchanges, [command |-> Head(microtasks).command, arg |-> lastSent.arg,
                     body |-> Head(microtasks).body])

Reacting == ~parsing /\ microtasks # << >>
Job == Head(microtasks)
Awaited(command) == Job.k = "request" /\ Job.command = command /\ pc = command

\* What a continuation leaves alone besides what it names.
JobFrame ==
  UNCHANGED <<alive, parsing, settled, lastMessage, stoppedSinceResponse, codecVars, toolVars, prior>>

Return(outcome) ==
  /\ result' = outcome
  /\ pc' = "idle"

\* A faulty variant: the rejection of the launch request ends launch().
LaunchWarningFatal(job) ==
  IF job.ok \/ op # "launch" \/ pc = "idle" THEN [pc |-> pc, result |-> result]
  ELSE [pc |-> "idle", result |-> Failure(job.err)]
\* Where launch() stands and its outcome once the launch request has settled:
\* as they were.
LaunchWarning(job) == [pc |-> pc, result |-> result]

\* `.catch(err => console.warn('Launch request warning:', err))`, or nothing
\* on success: the launch request's outcome reaches no one.
LaunchRequestSettled ==
  /\ Reacting /\ Job.k = "request" /\ Job.command = "launch"
  /\ microtasks' = Tail(microtasks)
  /\ NoSend
  /\ pc' = LaunchWarning(Job).pc
  /\ result' = LaunchWarning(Job).result
  /\ UNCHANGED <<codelldbProcess, threadId, frameId, listeners, stoppedPromise, op,
                 locals>>
  /\ UNCHANGED launchTrace
  /\ UNCHANGED exchanges
  /\ JobFrame

\* The catch block of launch, continue, stepOver, getVariables, setBreakpoint.
OperationRejected ==
  /\ Reacting /\ Job.k = "request" /\ ~Job.ok
  /\ Job.command \notin {"launch", "disconnect"}
  /\ pc = Job.command
  /\ microtasks' = Tail(microtasks)
  /\ Return(Failure(Job.err))
  /\ NoSend
  /\ UNCHANGED <<codelldbProcess, threadId, frameId, listeners, stoppedPromise, op,
                 locals>>
  /\ launchTrace' = IF op = "launch"
                    THEN [launchTrace EXCEPT !.outcome = "failure"]
                    ELSE launchTrace
  /\ exchanges' = << >>
  /\ JobFrame

\* launch, after the initialize response: arm the one-shot `initialized`
\* listener, send `launch` without awaiting it, await initializedPromise.
LaunchAfterInitialize ==
  /\ Reacting /\ Awaited("initialize") /\ Job.ok
  /\ microtasks' = Tail(microtasks)
  /\ listeners' = [listeners EXCEPT !.initialized = Append(@, "onInitialized")]
  /\ sendRequest("launch", << >>, codelldbProcess)
  /\ pc' = "initialized"
  /\ UNCHANGED <<codelldbProcess, threadId, frameId, stoppedPromise, op, result, locals>>
  /\ launchTrace' = [launchTrace EXCEPT !.sent = "launch"]
  /\ UNCHANGED exchanges
  /\ JobFrame

\* A faulty variant: the listener is not registered before the send.
ArmStoppedNever(ls) == ls
\* `this.on('stopped', onStopped)` inside stoppedPromise's executor
ArmStopped(ls) == Append(ls, "onStopped")

\* launch, after the `initialized` event: arm onStopped, then send
\* configurationDone and await its response.
LaunchAfterInitialized ==
  /\ Reacting /\ Job.k = "initializedPromise" /\ op = "launch" /\ pc = "initialized"
  /\ microtasks' = Tail(microtasks)
  /\ listeners' = [listeners EXCEPT !.stopped = ArmStopped(@)]
  /\ stoppedPromise' = "pending"
  /\ sendRequest("configurationDone", << >>, codelldbProcess)
  /\ pc' = "configurationDone"
  /\ UNCHANGED <<codelldbProcess, threadId, frameId, op, result, locals>>
  /\ launchTrace' = [launchTrace EXCEPT !.sent = "configurationDone"]
  /\ UNCHANGED exchanges
  /\ JobFrame

\* launch, after the configurationDone response: `await stoppedPromise`.
LaunchAfterConfigurationDone ==
  /\ Reacting /\ Awaited("configurationDone") /\ Job.ok
  /\ pc' = "stopped"
  /\ IF stoppedPromise = "resolved"
     THEN /\ microtasks' = Append(Tail(microtasks), EventReaction("stoppedPromise"))
          /\ UNCHANGED stoppedPromise
     ELSE /\ microtasks' = Tail(microtasks)
          /\ stoppedPromise' = "awaited"
  /\ NoSend
  /\ UNCHANGED <<codelldbProcess, threadId, frameId, listeners, op, result, locals>>
  /\ UNCHANGED launchTrace
  /\ UNCHANGED exchanges
  /\ JobFrame

\* launch, after stoppedPromise: `return { success: true }`.
LaunchAfterStopped ==
  /\ Reacting /\ Job.k = "stoppedPromise" /\ op = "launch" /\ pc = "stopped"
  /\ microtasks' = Tail(microtasks)
  /\ Return(Success(<< >>))
  /\ NoSend
  /\ UNCHANGED <<codelldbProcess, threadId, frameId, listeners, stoppedPromise, op,
                 locals>>
  /\ launchTrace' = [launchTrace EXCEPT !.outcome = "success"]
  /\ UNCHANGED exchanges
  /\ JobFrame

\* continue / stepOver, after the response: `this.once('stopped', ...)`.
ResumeAfterResponse(name, command) ==
  /\ Reacting /\ Awaited(command) /\ Job.ok /\ op = name
  /\ microtasks' = Tail(microtasks)
  /\ listeners' = [listeners EXCEPT !.stopped = Append(@, "onceStopped")]
  /\ pc' = "stopped"
  /\ NoSend
  /\ UNCHANGED <<codelldbProcess, threadId, frameId, stoppedPromise, op, result, locals>>
  /\ UNCHANGED launchTrace
  /\ UNCHANGED exchanges
  /\ JobFrame

ContinueAfterResponse == ResumeAfterResponse("continue", "continue")

StepOverAfterResponse == ResumeAfterResponse("stepOver", "next")

\* continue / stepOver, after the `stopped` event: `return { success: true }`.
ResumeAfterStopped ==
  /\ Reacting /\ Job.k = "onceStopped" /\ op \in {"continue", "stepOver"}
  /\ pc = "stopped"
  /\ microtasks' = Tail(microtasks)
  /\ Return(Success(<< >>))
  /\ NoSend
  /\ UNCHANGED <<codelldbProcess, threadId, frameId, listeners, stoppedPromise, op,
                 locals>>
  /\ UNCHANGED launchTrace
  /\ UNCHANGED exchanges
  /\ JobFrame

\* A faulty variant: a scope without a reference is not passed over.
SkipEmptyScopesNone(scopes) == scopes
RECURSIVE SkipEmptyScopes(_)
\* `if (scope.variablesReference)`: scopes with reference 0 are passed over.
SkipEmptyScopes(scopes) ==
  IF scopes = << >> THEN << >>
  ELSE IF Head(scopes) = 0 THEN SkipEmptyScopes(Tail(scopes))
  ELSE scopes

\* getVariables' `for (const scope of scopes)` from `scopes` on, with
\* allVariables = all: send `variables` for the next scope that has a
\* reference, or return.
VisitScopes(scopes, all) ==
  LET rest == SkipEmptyScopes(scopes) IN
  IF rest = << >>
  THEN /\ Return(Success(all))
       /\ locals' = NoLocals
       /\ NoSend
  ELSE /\ sendRequest("variables", <<Head(rest)>>, codelldbProcess)
       /\ locals' = [scopes |-> Tail(rest), all |-> all, ref |-> Head(rest)]
       /\ pc' = "variables"
       /\ UNCHANGED result

GetVariablesAfterStackTrace ==
  /\ Reacting /\ Awaited("stackTrace") /\ Job.ok
  /\ microtasks' = Tail(microtasks)
  /\ IF Job.body = << >>
     THEN /\ Return(Success(<< >>))
          /\ NoSend
          /\ UNCHANGED frameId
     ELSE /\ frameId' = Job.body[1]
          /\ sendRequest("scopes", <<Job.body[1]>>, codelldbProcess)
          /\ pc' = "scopes"
          /\ UNCHANGED result
  /\ UNCHANGED <<codelldbProcess, threadId, listeners, stoppedPromise, op, locals>>
  /\ UNCHANGED launchTrace
  /\ exchanges' = IF pc' = "idle" THEN << >> ELSE Answered
  /\ JobFrame

GetVariablesAfterScopes ==
  /\ Reacting /\ Awaited("scopes") /\ Job.ok
  /\ microtasks' = Tail(microtasks)
  /\ VisitScopes(Job.body, << >>)
  /\ UNCHANGED <<codelldbProcess, threadId, frameId, listeners, stoppedPromise, op>>
  /\ UNCHANGED launchTrace
  /\ exchanges' = IF pc' = "idle" THEN << >> ELSE Answered
  /\ JobFrame

\* getVariablesFromReference's result pushed onto allVariables, then the
\* loop goes on.
GetVariablesAfterVariables ==
  /\ Reacting /\ Awaited("variables") /\ Job.ok
  /\ microtasks' = Tail(microtasks)
  /\ VisitScopes(locals.scopes,
                 locals.all \o [i \in 1..Len(Job.body) |->
                                  [ref |-> locals.ref, value |-> Job.body[i]]])
  /\ UNCHANGED <<codelldbProcess, threadId, frameId, listeners, stoppedPromise, op>>
  /\ UNCHANGED launchTrace
  /\ exchanges' = IF pc' = "idle" THEN << >> ELSE Answered
  /\ JobFrame

\* setBreakpoint, after the response: one BreakpointInfo per returned entry,
\* `id: bp.id ?? index`, `line: bp.line ?? config.line` (0 = omitted).
SetBreakpointAfterResponse ==
  /\ Reacting /\ Awaited("setBreakpoints") /\ Job.ok
  /\ microtasks' = Tail(microtasks)
  /\ LET line == lastSent.arg[1] IN
     Return(Success([i \in 1..Len(Job.body) |->
                       [id |-> i - 1,
                        line |-> IF Job.body[i] = 0 THEN line ELSE Job.body[i]]]))
  /\ NoSend
  /\ UNCHANGED <<codelldbProcess, threadId, frameId, listeners, stoppedPromise, op,
                 locals>>
  /\ UNCHANGED launchTrace
  /\ UNCHANGED exchanges
  /\ JobFrame

\* A faulty variant: the handle is kept after the kill.
HandleAfterKillKept == "proc"
\* `this.codelldbProcess = null`
HandleAfterKill == "null"

\* terminate, after the disconnect exchange, whatever its outcome
\* (`.catch(() => {})`): kill the subprocess and drop the handle.
TerminateAfterDisconnect ==
  /\ Reacting /\ Awaited("disconnect")
  /\ microtasks' = Tail(microtasks)
  /\ alive' = FALSE
  /\ codelldbProcess' = HandleAfterKill
  /\ Return(Success(<< >>))
  /\ NoSend
  /\ UNCHANGED <<threadId, frameId, listeners, stoppedPromise, op, locals>>
  /\ UNCHANGED <<parsing, settled, launchTrace, lastMessage, stoppedSinceResponse,
                 codecVars, toolVars, prior, exchanges>>

\* ------------------------------------------------------------ the session
NoTrace == [called |-> FALSE, sent |-> "none", acked |-> {}, initialized |-> FALSE,
            launchResponse |-> "never", launchFailed |-> FALSE,
            stopped |-> Undefined, earlyStop |-> FALSE, outcome |-> "none"]
NoRequest == [seq |-> 0, command |-> "", arg |-> << >>, written |-> FALSE]

SessionInit ==
  /\ codelldbProcess = "null"
  /\ alive = FALSE
  /\ requestSeq = 1
  /\ pendingRequests = << >>
  /\ timers = << >>
  /\ threadId = Undefined
  /\ frameId = Undefined
  /\ listeners = [initialized |-> << >>, stopped |-> << >>]
  /\ stoppedPromise = "none"
  /\ seqLog = << >>
  /\ stdin = << >>
  /\ lastSent = NoRequest
  /\ op = "none"
  /\ pc = "idle"
  /\ result = NoResult
  /\ locals = NoLocals
  /\ microtasks = << >>
  /\ parsing = FALSE
  /\ settled = [s \in 1..MaxSeq |-> 0]
  /\ launchTrace = NoTrace
  /\ lastMessage = NoMessage
  /\ stoppedSinceResponse = FALSE
  /\ prior = [process |-> "null", threadId |-> Undefined, frameId |-> Undefined]
  /\ exchanges = << >>

CodecIdle ==
  /\ input = << >>
  /\ delivered = 0
  /\ messageBuffer = << >>
  /\ decoded = << >>

ToolIdle ==
  /\ instances = 0
  /\ rustDebugger = 0
  /\ handles = [i \in 1..MaxInstances |-> "null"]
  /\ running = {}
  /\ launched = [i \in 1..MaxInstances |-> "none"]
  /\ toolPc = "idle"
  /\ toolResult = "none"

Init == SessionInit /\ CodecIdle /\ ToolIdle

Next ==
  \/ \E found \in BOOLEAN : Launch(found)
  \/ Continue
  \/ StepOver
  \/ GetVariables
  \/ \E line \in Lines : SetBreakpoint(line)
  \/ Terminate
  \/ \E m \in AdapterMessages : StdoutData(m)
  \/ \E m \in AdapterMessages : ParseNext(m)
  \/ ParseBreak
  \/ TimerFire
  \/ AdapterExit
  \/ LaunchRequestSettled
  \/ OperationRejected
  \/ LaunchAfterInitialize
  \/ LaunchAfterInitialized
  \/ LaunchAfterConfigurationDone
  \/ LaunchAfterStopped
  \/ ContinueAfterResponse
  \/ StepOverAfterResponse
  \/ ResumeAfterStopped
  \/ GetVariablesAfterStackTrace
  \/ GetVariablesAfterScopes
  \/ GetVariablesAfterVariables
  \/ SetBreakpointAfterResponse
  \/ TerminateAfterDisconnect

Spec == Init /\ [][Next]_vars

\* The promise continuations: the microtask at the head of the queue runs.
Continuation ==
  \/ LaunchRequestSettled
  \/ OperationRejected
  \/ LaunchAfterInitialize
  \/ LaunchAfterInitialized
  \/ LaunchAfterConfigurationDone
  \/ LaunchAfterStopped
  \/ ContinueAfterResponse
  \/ StepOverAfterResponse
  \/ ResumeAfterStopped
  \/ GetVariablesAfterStackTrace
  \/ GetVariablesAfterScopes
  \/ GetVariablesAfterVariables
  \/ SetBreakpointAfterResponse
  \/ TerminateAfterDisconnect

\* The event loop's guarantees: a parse loop ends (a chunk is finite), queued
\* continuations run, and an armed timer fires however often stdout data
\* arrives in between (the loop visits its timers phase on every turn).
\* Nothing is assumed of the adapter or of the caller.
Fairness ==
  /\ WF_vars(ParseBreak)
  /\ WF_vars(Continuation)
  /\ SF_vars(TimerFire)

SpecLive == Init /\ [][Next]_vars /\ Fairness

\* ================================================================ claims
\* A caller's call: the only steps that start from an idle, quiescent engine
\* and change the operation, its await point or its outcome.
CallStep == pc = "idle" /\ Quiescent /\ (op' # op \/ pc' # pc \/ result' # result)

\* The setTimeout callback of the oldest timer ran.
TimerStep == timers # << >> /\ timers' = Tail(timers)

Without(seq) == [s \in DOMAIN pendingRequests \ {seq} |-> pendingRequests[s]]

\* The adapter answered `initialize` and `configurationDone` with success,
\* emitted `initialized` after the `launch` request was sent and `stopped`
\* after `configurationDone` was sent, and every continuation has run.
C1_Premise ==
  /\ Quiescent
  /\ {"initialize", "configurationDone"} \subseteq launchTrace.acked
  /\ launchTrace.initialized
  /\ launchTrace.stopped # Undefined

\* C1: once the adapter has answered initialize with success, emitted
\* initialized after the launch request, answered configurationDone with
\* success and emitted stopped with thread id t, launch() has returned success
\* and the active thread id is t, whether the launch response came before the
\* initialized event, after it, or never.
C1_LaunchCapturesThread ==
  C1_Premise => launchTrace.outcome = "success" /\ threadId = launchTrace.stopped

\* The scenario of the spec: launch response first, then initialized, then
\* stopped with thread id 7 after configurationDone was acknowledged.
C1_Witness ==
  /\ C1_Premise
  /\ launchTrace.launchResponse = "before"
  /\ ~launchTrace.earlyStop
  /\ launchTrace.outcome = "success"
  /\ threadId = 7

\* The same with the launch response after the initialized event, and never.
C1_WitnessAfter ==
  C1_Premise /\ launchTrace.launchResponse = "after" /\ launchTrace.outcome = "success"
C1_WitnessNever ==
  /\ C1_Premise /\ launchTrace.launchResponse = "never"
  /\ launchTrace.outcome = "success" /\ timers = << >>

\* C2: from the moment configurationDone is sent until the first stopped
\* event, launch's stopped waiter is registered; a stopped event received at
\* any point after that send is captured (thread id stored, stoppedPromise
\* resolved), and launch() is never left waiting for a stopped event that has
\* already arrived.
C2_StoppedWaiterArmed ==
  /\ (SentConfigurationDone /\ launchTrace.stopped = Undefined)
        => \E i \in 1..Len(listeners.stopped) : listeners.stopped[i] = "onStopped"
  /\ launchTrace.stopped # Undefined
        => threadId = launchTrace.stopped /\ stoppedPromise = "resolved"
  /\ (Quiescent /\ op = "launch" /\ pc = "stopped") => launchTrace.stopped = Undefined

\* The stopped event arrived before the configurationDone response was
\* handled, and launch() returned success.
C2_Witness == launchTrace.earlyStop /\ launchTrace.outcome = "success"

\* C3: once the continue/next request got its success response and a stopped
\* event came after that response, continue()/stepOver() has returned success
\* (every continuation having run), for every delivery timing.
C3_ResumeReturnsAfterStopped ==
  (Quiescent /\ op \in {"continue", "stepOver"} /\ stoppedSinceResponse)
     => (pc = "idle" /\ result.success)

\* The safety half of C3: continue()/stepOver() never returns success unless a
\* stopped event came after the response.
C3_NoSuccessBeforeStopped ==
  (op \in {"continue", "stepOver"} /\ pc = "idle" /\ result.success)
     => stoppedSinceResponse

\* C4: continue(), stepOver() and getVariables() called while no thread id
\* has been captured return the failure "No thread ID" at once and do no
\* I/O: no frame written, no sequence number consumed, no Pending Request, no
\* timer and no event waiter registered.
C4_NoThreadNoIO ==
  [][(CallStep /\ threadId = Undefined
        /\ op' \in {"continue", "stepOver", "getVariables"})
      => /\ pc' = "idle"
         /\ result' = Failure(NoThreadIdError)
         /\ UNCHANGED <<stdin, seqLog, requestSeq, pendingRequests, timers,
                        listeners, microtasks>>]_vars

\* continue() on a fresh, un-launched session failed the precondition.
C4_Witness ==
  /\ ~launchTrace.called
  /\ op = "continue" /\ pc = "idle"
  /\ result = Failure(NoThreadIdError)
  /\ threadId = Undefined /\ seqLog = << >> /\ stdin = << >>

\* C5: continue(), stepOver(), getVariables() and setBreakpoint() called
\* while the process handle is null return a failure at once: no sequence
\* number allocated, no Pending Request registered, no timer to wait for, no
\* frame written.
C5_NoSessionNoIO ==
  [][(CallStep /\ codelldbProcess = "null"
        /\ op' \in {"continue", "stepOver", "getVariables", "setBreakpoint"})
      => /\ pc' = "idle"
         /\ ~result'.success /\ result' # NoResult
         /\ UNCHANGED <<stdin, requestSeq, pendingRequests, timers>>]_vars

\* C6: resolve/reject of a request is called at most once, and a request is
\* pending exactly as long as it has been sent and not settled: duplicate
\* responses and a timer firing after the response settle nothing again.
C6_SettledOnce ==
  \A s \in 1..MaxSeq :
    /\ settled[s] <= 1
    /\ s < requestSeq => (s \in DOMAIN pendingRequests <=> settled[s] = 0)
    /\ s >= requestSeq => (s \notin DOMAIN pendingRequests /\ settled[s] = 0)

\* setBreakpoint got its response, then its timer fired, then a duplicate of
\* the response arrived.
C6_Witness ==
  /\ op = "setBreakpoint" /\ pc = "idle" /\ result.success
  /\ timers = << >> /\ lastMessage = "late"
  /\ settled[lastSent.seq] = 1

\* C7: the sequence numbers assigned are strictly increasing in send order,
\* all below the next sequence number, and every key of the pending table is
\* one of them.
C7_SequenceNumbers ==
  /\ \A i, j \in 1..Len(seqLog) : i < j => seqLog[i] < seqLog[j]
  /\ \A i \in 1..Len(seqLog) : seqLog[i] < requestSeq
  /\ \A s \in DOMAIN pendingRequests :
        s < requestSeq /\ \E i \in 1..Len(seqLog) : seqLog[i] = s

\* Five requests sent, among them a launch request that timed out, a request
\* that failed and one sent while the process handle was null.
C7_Witness ==
  /\ Len(seqLog) >= 5
  /\ launchTrace.launchResponse = "never" /\ SentLaunch /\ 2 \notin DOMAIN pendingRequests
  /\ launchTrace.outcome = "failure"
  /\ ~lastSent.written

\* C8: handling a response changes nothing but the Pending Request its
\* request_seq names: with no such Pending Request nothing changes at all;
\* with one, that request is settled and removed and every other Pending
\* Request stays as it was.
C8_ResponseAffectsOwnRequest ==
  [][parsing' => \A m \in AdapterMessages :
       (m.type = "response" /\ (StdoutData(m) \/ ParseNext(m)))
       => IF m.request_seq \in DOMAIN pendingRequests
          THEN /\ pendingRequests' = Without(m.request_seq)
               /\ settled' = [settled EXCEPT ![m.request_seq] = 1]
               /\ Len(microtasks') = Len(microtasks) + 1
          ELSE UNCHANGED <<pendingRequests, settled, microtasks, listeners,
                           threadId, frameId, stoppedPromise, requestSeq, timers,
                           op, pc, result, locals>>]_vars

\* Two requests were outstanding, the later one was answered, and while the
\* earlier one is still pending a response naming no Pending Request was
\* dropped.
C8_Witness ==
  /\ lastMessage # "none"
  /\ \E s \in DOMAIN pendingRequests :
       \E u \in 1..MaxSeq : s < u /\ u < requestSeq /\ settled[u] = 1

\* C9: a timer firing on a pending request removes exactly that request and
\* rejects it with "Request <command> timed out"; an operation that ended on
\* a timeout names the command it was awaiting; a response arriving for a
\* request already settled changes neither the pending table nor any outcome.
C9_Timeout ==
  /\ [](pc = "idle" /\ result.error \in {TimeoutMessage(c) : c \in Commands}
          => /\ result.error = "Request " \o lastSent.command \o " timed out"
             /\ lastSent.seq \notin DOMAIN pendingRequests
             /\ settled[lastSent.seq] = 1)
  /\ [][(TimerStep /\ Head(timers).seq \in DOMAIN pendingRequests)
          => LET seq == Head(timers).seq
                 command == pendingRequests[seq].command
             IN /\ pendingRequests' = Without(seq)
                /\ settled' = [settled EXCEPT ![seq] = 1]
                /\ microtasks' = <<Reaction(seq, command, FALSE,
                                     "Request " \o command \o " timed out", << >>)>>]_vars
  /\ [][lastMessage' = "late"
          => UNCHANGED <<pendingRequests, settled, microtasks, op, pc, result>>]_vars

\* launch()'s initialize request timed out, launch() returned the timeout
\* error, and the adapter's response arrived afterwards.
C9_Witness ==
  /\ seqLog = <<1>> /\ op = "launch" /\ pc = "idle"
  /\ result = Failure("Request initialize timed out")
  /\ lastMessage = "late"
  /\ pendingRequests = << >>

\* C11: terminate() never returns a failure; once it has returned, the
\* subprocess is dead and the handle is null; a terminate() awaiting its
\* disconnect exchange returns in the end, whatever the adapter answers or
\* fails to answer; called with a null handle (again, or never launched) it
\* returns success at once and sends nothing.
C11_TerminateCleansUp ==
  /\ []((op = "terminate" /\ pc = "idle")
          => (result = Success(<< >>) /\ codelldbProcess = "null" /\ ~alive))
  /\ [][(CallStep /\ codelldbProcess = "null" /\ op' = "terminate")
          => /\ pc' = "idle" /\ result' = Success(<< >>)
             /\ UNCHANGED <<stdin, seqLog, requestSeq, pendingRequests, timers>>]_vars
  /\ ((op = "terminate" /\ pc = "disconnect")
        ~> (op = "terminate" /\ pc = "idle" /\ result.success
              /\ codelldbProcess = "null" /\ ~alive))

\* A session that was launched with success has been terminated: the
\* disconnect request was written, and terminate() returned.
C11_Witness ==
  /\ op = "terminate" /\ pc = "idle" /\ result.success
  /\ launchTrace.outcome = "success"
  /\ lastSent.command = "disconnect" /\ lastSent.written
  /\ codelldbProcess = "null" /\ ~alive

\* terminate()'s disconnect request timed out, respectively was answered with
\* a failure: the rejection is about to be absorbed.
C11_WitnessTimeout ==
  /\ op = "terminate" /\ pc = "disconnect" /\ microtasks # << >>
  /\ Head(microtasks).err = TimeoutMessage("disconnect")
C11_WitnessFailure ==
  /\ op = "terminate" /\ pc = "disconnect" /\ microtasks # << >>
  /\ Head(microtasks).err = "adapter error"

\* The events the adapter may emit.
EventMessages == {m \in AdapterMessages : m.type = "event"}

\* The promise reactions queued by event listeners.
EventReactions(q) == {i \in 1..Len(q) : q[i].k # "request"}

\* C13: handling an event leaves no listener of its name registered and
\* queues at most one continuation per listener that was registered (each
\* waiter fires once and is gone); handled with no listener of its name
\* registered, the event changes nothing; and the step that registers a
\* listener never completes it (no replay): a continuation waiting on an
\* event is queued by an event step alone, or by awaiting launch's
\* stoppedPromise, which its listener had resolved.
C13_OneShotNoReplay ==
  /\ [][parsing' => \A m \in EventMessages :
          (StdoutData(m) \/ ParseNext(m))
          => LET e == m.event
                 other == IF e = "stopped" THEN "initialized" ELSE "stopped"
             IN /\ listeners'[e] = << >>
                /\ listeners'[other] = listeners[other]
                /\ Len(microtasks') <= Len(microtasks) + Len(listeners[e])
                /\ listeners[e] = << >>
                     => UNCHANGED <<microtasks, threadId, stoppedPromise, op, pc,
                                    result, pendingRequests, settled>>]_vars
  /\ [][(\E e \in {"initialized", "stopped"} : Len(listeners'[e]) > Len(listeners[e]))
          => Cardinality(EventReactions(microtasks'))
               <= Cardinality(EventReactions(microtasks))]_vars
  /\ [][Cardinality(EventReactions(microtasks')) > Cardinality(EventReactions(microtasks))
          => \/ parsing' /\ lastMessage' = "none" /\ UNCHANGED pendingRequests
             \/ pc = "configurationDone" /\ pc' = "stopped"
                  /\ stoppedPromise = "resolved"]_vars

\* continue() registered its stopped listener after the stopped event had
\* been handled and discarded; the listener is still registered, waiting.
C13_Witness ==
  /\ Quiescent /\ op = "continue" /\ pc = "stopped"
  /\ stoppedSinceResponse
  /\ listeners.stopped = <<"onceStopped">>

\* continue(), stepOver(), getVariables() or setBreakpoint() has returned a
\* failure other than the no-thread-id precondition.
FailedOperation ==
  /\ op \in {"continue", "stepOver", "getVariables", "setBreakpoint"}
  /\ pc = "idle" /\ ~result.success
  /\ result.error # NoThreadIdError

\* C14: when continue(), stepOver(), getVariables() or setBreakpoint() has
\* returned a timeout or an adapter-reported failure, the outcome carries the
\* error message and the process handle, the active thread id and the active
\* frame id are what they were when the operation was called.
C14_FailureLeavesSession ==
  FailedOperation
    => /\ result.error \in {TimeoutMessage(c) : c \in Commands}
                              \cup {"Request failed", "adapter error"}
       /\ codelldbProcess = prior.process
       /\ threadId = prior.threadId
       /\ frameId = prior.frameId

\* What does hold: the failure carries the message and the handle is as it
\* was.
C14_FailureKeepsHandle ==
  FailedOperation
    => /\ result.error \in {TimeoutMessage(c) : c \in Commands}
                              \cup {"Request failed", "adapter error"}
       /\ codelldbProcess = prior.process

\* The frame id half alone, and the thread id half alone.
C14_FailureKeepsFrame ==
  (FailedOperation /\ op = "getVariables") => frameId = prior.frameId
C14_FailureKeepsThread == FailedOperation => threadId = prior.threadId

\* No step of these four operations ends the subprocess: it stops running
\* only by exiting on its own or by terminate().
C14_NotKilled ==
  [][(alive /\ ~alive') => (Quiescent \/ op = "terminate")]_vars

\* The launch request was answered with a failure, or was never answered and
\* has timed out.
LaunchRequestFailed ==
  \/ launchTrace.launchFailed
  \/ /\ SentLaunch /\ launchTrace.launchResponse = "never"
     /\ \A q \in DOMAIN pendingRequests : pendingRequests[q].command # "launch"

\* C17: launch() does not wait for the launch response (its `initialized`
\* wait ends on the event with the launch request still pending); when the
\* launch request failed or timed out and the initialized event, the
\* configurationDone success response and the stopped event arrived,
\* launch() returned success; and the step that consumes the launch
\* request's outcome changes neither where launch() stands nor its outcome.
C17_LaunchFailureNotFatal ==
  /\ []((C1_Premise /\ LaunchRequestFailed) => launchTrace.outcome = "success")
  /\ []((op = "launch" /\ pc = "idle") => result.error # TimeoutMessage("launch"))
  /\ []((Quiescent /\ op = "launch" /\ pc = "initialized")
          => ~launchTrace.initialized)
  /\ [][(Reacting /\ Job.k = "request" /\ Job.command = "launch"
            /\ microtasks' = Tail(microtasks))
          => UNCHANGED <<op, pc, result, listeners, threadId, stoppedPromise,
                         pendingRequests, codelldbProcess, alive>>]_vars

\* The launch request was answered with a failure before the initialized
\* event, and launch() returned success.
C17_Witness ==
  /\ C1_Premise /\ launchTrace.launchFailed
  /\ launchTrace.launchResponse = "before"
  /\ launchTrace.outcome = "success" /\ op = "launch" /\ result.success

\* The launch request timed out while launch() was waiting for the stopped
\* event (the initialize request answered, the launch request's timer fired
\* next), and launch() returned success.
C17_WitnessTimeout ==
  /\ C1_Premise /\ LaunchRequestFailed /\ ~launchTrace.launchFailed
  /\ launchTrace.outcome = "success" /\ op = "launch" /\ result.success

\* The configurationDone request was sent while the launch request was
\* still pending.
C17_WitnessPending ==
  /\ SentConfigurationDone
  /\ \E q \in DOMAIN pendingRequests : pendingRequests[q].command = "launch"

\* The modelled adapter has no answers left for a further request.
SeqExhausted == requestSeq > Len(settled)

\* C18: every caller-facing operation eventually returns an outcome, whatever
\* the adapter does, assuming only that request timers fire.  launch() awaits
\* the initialized and stopped events, and continue() and stepOver() await
\* the stopped event, with no timer behind the wait.
C18_EveryOperationReturns ==
  (pc # "idle") ~> (pc = "idle" \/ SeqExhausted)

\* No operation is ever left waiting with every request settled and every
\* timer fired, where only a message of the adapter can let it return.
C18_NoWaitWithoutTimer ==
  ~(Quiescent /\ pc # "idle" /\ timers = << >> /\ DOMAIN pendingRequests = {}
      /\ ~SeqExhausted)

\* The operations that await requests only (getVariables, setBreakpoint,
\* terminate) do return.
C18_RequestOperationsReturn ==
  (op \in {"getVariables", "setBreakpoint", "terminate"} /\ pc # "idle")
    ~> (pc = "idle" \/ SeqExhausted)

\* A handler registered by launch() is still armed.
LaunchHandlerArmed ==
  \/ \E i \in 1..Len(listeners.stopped) : listeners.stopped[i] = "onStopped"
  \/ \E i \in 1..Len(listeners.initialized) :
        listeners.initialized[i] = "onInitialized"

\* C19: after launch() has returned a failure, no event handler registered by
\* that launch remains armed, and no later step sets the active thread id.
C19_FailedLaunchDisarmed ==
  /\ [](launchTrace.outcome = "failure" => ~LaunchHandlerArmed)
  /\ [][launchTrace.outcome = "failure" => threadId' = threadId]_vars

\* The first half alone: no handler of a failed launch remains armed.
C19_NoHandlerArmed == launchTrace.outcome = "failure" => ~LaunchHandlerArmed

\* The second half alone: once launch() has failed the thread id stays as it
\* was.
C19_ThreadIdKept ==
  [][launchTrace.outcome = "failure" => threadId' = threadId]_vars

\* What does hold: a launch() that failed at the initialize request, before
\* either handler was registered, leaves none armed.
C19_EarlyFailureDisarmed ==
  (launchTrace.outcome = "failure" /\ launchTrace.sent = "initialize")
    => ~LaunchHandlerArmed

\* A call of continue(), stepOver() or getVariables() on a session whose
\* launch() returned success.
ThreadCallAfterLaunch ==
  /\ CallStep /\ launchTrace.outcome = "success"
  /\ op' \in {"continue", "stepOver", "getVariables"}

\* The call sent its request carrying the active thread id.
SentWithThread ==
  /\ result' # Failure(NoThreadIdError)
  /\ lastSent'.seq = requestSeq /\ lastSent'.arg = <<threadId>>
  /\ lastSent'.command \in {"continue", "next", "stackTrace"}

\* C20: after launch() returned success with the thread id t of the stopped
\* event, whatever value t has (0 included), a following continue(),
\* stepOver() or getVariables() does not fail the no-thread-id precondition
\* but sends its request carrying t, and no later step changes the active
\* thread id.
C20_ThreadIdActive ==
  /\ [][ThreadCallAfterLaunch => SentWithThread]_vars
  /\ [][launchTrace.outcome = "success" => threadId' = threadId]_vars

\* The first half alone.
C20_AnyThreadIdSends == [][ThreadCallAfterLaunch => SentWithThread]_vars

\* What does hold: the same for every thread id other than 0.
C20_NonZeroThreadIdSends ==
  [][(ThreadCallAfterLaunch /\ threadId # 0) => SentWithThread]_vars

\* What does hold: once launch() has returned success, stopped events received
\* later leave the active thread id unchanged.
C20_ThreadIdStable ==
  [][launchTrace.outcome = "success" => threadId' = threadId]_vars

\* launch() returned success with thread id 0 and the continue() that
\* followed returned the no-thread-id failure.
C20_ZeroRejected ==
  /\ launchTrace.outcome = "success" /\ launchTrace.stopped = 0 /\ threadId = 0
  /\ op = "continue" /\ pc = "idle" /\ result = Failure(NoThreadIdError)

\* ================================================= getVariables() alone
\* A session as launch() leaves it: the adapter answered initialize, launch
\* and configurationDone, emitted initialized and stopped (thread id 7), the
\* three timers have fired; n is the number of sequence numbers of the run.
LaunchedSession(n) ==
  /\ codelldbProcess = "proc" /\ alive = TRUE
  /\ requestSeq = 4
  /\ pendingRequests = << >> /\ timers = << >>
  /\ threadId = 7 /\ frameId = Undefined
  /\ listeners = [initialized |-> << >>, stopped |-> << >>]
  /\ stoppedPromise = "resolved"
  /\ seqLog = <<1, 2, 3>> /\ stdin = <<1, 2, 3>>
  /\ lastSent = [seq |-> 3, command |-> "configurationDone", arg |-> << >>,
                 written |-> TRUE]
  /\ op = "launch" /\ pc = "idle" /\ result = Success(<< >>)
  /\ locals = NoLocals
  /\ microtasks = << >> /\ parsing = FALSE
  /\ settled = [s \in 1..n |-> IF s <= 3 THEN 1 ELSE 0]
  /\ launchTrace = [called |-> TRUE, sent |-> "configurationDone",
                     acked |-> {"initialize", "configurationDone"},
                     initialized |-> TRUE, launchResponse |-> "before",
                     launchFailed |-> FALSE, stopped |-> 7, earlyStop |-> FALSE, outcome |-> "success"]
  /\ lastMessage = NoMessage
  /\ stoppedSinceResponse = FALSE
  /\ prior = [process |-> "null", threadId |-> Undefined, frameId |-> Undefined]
  /\ exchanges = << >>

\* That session is one launch() produces.
LaunchedSessionReached == LaunchedSession(MaxSeq)

VariablesInit == LaunchedSession(3 + MaxVariablesSeq) /\ CodecIdle /\ ToolIdle

VariablesNext ==
  \/ GetVariables
  \/ \E m \in MessagesOver(BodiesWide) : StdoutData(m)
  \/ \E m \in MessagesOver(BodiesWide) : ParseNext(m)
  \/ ParseBreak
  \/ TimerFire
  \/ AdapterExit
  \/ OperationRejected
  \/ GetVariablesAfterStackTrace
  \/ GetVariablesAfterScopes
  \/ GetVariablesAfterVariables

SpecVariables == VariablesInit /\ [][VariablesNext]_vars

RECURSIVE NonZero(_)
\* The references of the scopes that have one, in scope order.
NonZero(scopes) ==
  IF scopes = << >> THEN << >>
  ELSE IF Head(scopes) = 0 THEN NonZero(Tail(scopes))
  ELSE <<Head(scopes)>> \o NonZero(Tail(scopes))

RECURSIVE Flattened(_, _, _)
\* The variables of the exchanges log[i..], each tagged with the reference
\* refs[i - 2] its request was for.
Flattened(log, refs, i) ==
  IF i > Len(log) THEN << >>
  ELSE [j \in 1..Len(log[i].body) |-> [ref |-> refs[i - 2], value |-> log[i].body[j]]]
       \o Flattened(log, refs, i + 1)

\* C15: getVariables() sends stackTrace for the active thread, then scopes
\* for the top frame of the response, then variables for the references of
\* the scopes that have one, in scope order, each request only after the
\* response to the one before; it returns the variables of those exchanges
\* in that order; an empty stack-frame list gives success with no variables
\* and no scopes request.
C15_GetVariables ==
  /\ []((op = "getVariables" /\ pc # "idle")
          => LET k == Len(exchanges)
                 refs == IF k >= 2 THEN NonZero(exchanges[2].body) ELSE << >>
             IN /\ pc = lastSent.command
                /\ \A s \in DOMAIN pendingRequests : s = lastSent.seq
                /\ k = 0 => lastSent.command = "stackTrace"
                             /\ lastSent.arg = <<threadId>>
                /\ k >= 1 => /\ exchanges[1].command = "stackTrace"
                              /\ exchanges[1].arg = <<threadId>>
                              /\ exchanges[1].body # << >>
                /\ k = 1 => lastSent.command = "scopes"
                             /\ lastSent.arg = <<exchanges[1].body[1]>>
                /\ k >= 2 => /\ exchanges[2].command = "scopes"
                              /\ exchanges[2].arg = <<exchanges[1].body[1]>>
                              /\ k - 1 <= Len(refs)
                              /\ lastSent.command = "variables"
                              /\ lastSent.arg = <<refs[k - 1]>>
                              /\ \A i \in 3..k :
                                    /\ exchanges[i].command = "variables"
                                    /\ exchanges[i].arg = <<refs[i - 2]>>)
  /\ [][(op = "getVariables" /\ pc # "idle" /\ pc' = "idle" /\ result'.success)
          => LET log == Answered IN
             /\ UNCHANGED <<requestSeq, stdin>>
             /\ IF log[1].body = << >>
                THEN Len(log) = 1 /\ result'.data = << >>
                ELSE /\ Len(log) >= 2
                     /\ Len(log) = 2 + Len(NonZero(log[2].body))
                     /\ result'.data = Flattened(log, NonZero(log[2].body), 3)]_vars

\* getVariables() returned the variables of the first and of the third of
\* three scopes, the second having no reference.
C15_Witness ==
  /\ op = "getVariables" /\ pc = "idle" /\ result.success
  /\ requestSeq = 8
  /\ \E i, j \in 1..Len(result.data) :
        i < j /\ result.data[i].ref = 5 /\ result.data[j].ref = 3

\* getVariables() returned success on an empty stack-frame list.
C15_WitnessNoFrame ==
  /\ op = "getVariables" /\ pc = "idle" /\ result = Success(<< >>)
  /\ lastSent.command = "stackTrace"

\* ====================================================== the frame decoder
\* The adapter's output as a sequence of one-byte symbols.  "H" stands for the
\* literal text `Content-Length: ` (the decoder looks at a header only once
\* its terminator is in the buffer, so where a chunk boundary cuts that text
\* is immaterial); CR and LF are the bytes of the terminator; "1" and "2" are
\* digits; "{" and "}" are braces; "x" is any other byte.  All are ASCII, so
\* the byte length of a body is its length as a string.
CR == "\r"
LF == "\n"
Digits == {"1", "2"}
Terminator == <<CR, LF, CR, LF>>

\* Content-Length: 1, body `1`.
FrameOne == <<"H", "1">> \o Terminator \o <<"1">>
\* Content-Length: 2, body `{}`.
FrameObject == <<"H", "2">> \o Terminator \o <<"{", "}">>
\* A well-formed header whose body, `{`, is not JSON.
FrameBadBody == <<"H", "1">> \o Terminator \o <<"{">>
\* A header block without a Content-Length field.
BadHeader == <<"x">> \o Terminator
Pieces == {FrameOne, FrameObject, FrameBadBody, BadHeader}

RECURSIVE Streams(_)
\* The byte streams assembled from at most n pieces.
Streams(n) ==
  IF n = 0 THEN {<< >>}
  ELSE Streams(n - 1) \cup {s \o p : s \in Streams(n - 1), p \in Pieces}

\* `this.messageBuffer.indexOf('\r\n\r\n')`, 0-based, -1 when absent.
IndexOfTerminator(buf) ==
  LET hits == {i \in 1..(Len(buf) - 3) : SubSeq(buf, i, i + 3) = Terminator}
  IN IF hits = {} THEN -1
     ELSE (CHOOSE i \in hits : \A j \in hits : i <= j) - 1

RECURSIVE DigitRun(_, _)
\* The longest run of digits of s from position i on: `(\d+)`.
DigitRun(s, i) ==
  IF i > Len(s) \/ s[i] \notin Digits THEN << >>
  ELSE <<s[i]>> \o DigitRun(s, i + 1)

\* `/Content-Length: (\d+)/.exec(header)`: the captured digits of the
\* leftmost match, << >> when there is none.
ContentLengthMatch(header) ==
  LET at == {i \in 1..(Len(header) - 1) : header[i] = "H" /\ header[i + 1] \in Digits}
  IN IF at = {} THEN << >>
     ELSE DigitRun(header, (CHOOSE i \in at : \A j \in at : i <= j) + 1)

DigitValue(d) == IF d = "1" THEN 1 ELSE 2

RECURSIVE ParseInt(_)
\* `parseInt(match[1], 10)`
ParseInt(ds) ==
  IF ds = << >> THEN 0
  ELSE 10 * ParseInt(SubSeq(ds, 1, Len(ds) - 1)) + DigitValue(ds[Len(ds)])

RECURSIVE Trim(_)
\* JSON text with the whitespace around it removed.
Trim(s) ==
  IF s = << >> THEN s
  ELSE IF Head(s) \in {CR, LF} THEN Trim(Tail(s))
  ELSE IF s[Len(s)] \in {CR, LF} THEN Trim(SubSeq(s, 1, Len(s) - 1))
  ELSE s

\* A faulty variant: every body is taken for JSON.
JsonOkAlways(content) == TRUE
\* `JSON.parse(content)` succeeds: over these symbols the JSON texts are the
\* numbers and the empty object.
JsonOk(content) ==
  LET t == Trim(content)
  IN \/ t = <<"{", "}">>
     \/ t # << >> /\ \A i \in 1..Len(t) : t[i] \in Digits

\* The value `JSON.parse(content)` returns.
JsonValue(content) == Trim(content)

\* `this.messageBuffer = ''` on an invalid header
Discard(buf, headerEnd) == << >>

RECURSIVE ParseLoop(_, _)
\* parseMessages: the loop over `buf`, with `out` the messages handed to
\* handleMessage so far.  Indices are 0-based as in the source.
ParseLoop(buf, out) ==
  LET headerEnd == IndexOfTerminator(buf) IN
  IF headerEnd = -1 THEN [buffer |-> buf, messages |-> out]
  ELSE
    LET header == SubSeq(buf, 1, headerEnd)
        match == ContentLengthMatch(header)
    IN IF match = << >> THEN [buffer |-> Discard(buf, headerEnd), messages |-> out]
       ELSE
         LET contentLength == ParseInt(match)
             messageStart == headerEnd + 4
             messageEnd == messageStart + contentLength
         IN IF Len(buf) < messageEnd THEN [buffer |-> buf, messages |-> out]
            ELSE
              LET content == SubSeq(buf, messageStart + 1, messageEnd)
                  rest == SubSeq(buf, messageEnd + 1, Len(buf))
              IN ParseLoop(rest, IF JsonOk(content)
                                 THEN Append(out, JsonValue(content))
                                 ELSE out)

\* The stdout 'data' callback on a chunk of the next n bytes:
\* `this.messageBuffer += data.toString(); this.parseMessages()`.
Feed(n) ==
  /\ delivered + n <= Len(input)
  /\ LET chunk == SubSeq(input, delivered + 1, delivered + n)
         r == ParseLoop(messageBuffer \o chunk, << >>)
     IN /\ messageBuffer' = r.buffer
        /\ decoded' = decoded \o r.messages
  /\ delivered' = delivered + n
  /\ UNCHANGED input
  /\ UNCHANGED <<sessionVars, toolVars>>

CodecInit ==
  /\ SessionInit /\ ToolIdle
  /\ input \in Streams(MaxPieces)
  /\ delivered = 0
  /\ messageBuffer = << >>
  /\ decoded = << >>

CodecNext == \E n \in 1..Len(input) : Feed(n)

SpecCodec == CodecInit /\ [][CodecNext]_vars

\* C10: when all bytes have been delivered, in whatever chunks, the messages
\* decoded are those decoded from the same bytes delivered as one chunk.
C10_ChunkInvariance ==
  delivered = Len(input) => decoded = ParseLoop(input, << >>).messages

\* The same over the streams that contain no malformed header.
C10_WellFormedInvariance ==
  (delivered = Len(input)
     /\ \A i \in 1..(Len(input) - Len(BadHeader) + 1) :
           SubSeq(input, i, i + Len(BadHeader) - 1) # BadHeader)
  => decoded = ParseLoop(input, << >>).messages

\* s begins with the bytes of p.
StartsWith(s, p) == Len(s) >= Len(p) /\ SubSeq(s, 1, Len(p)) = p

\* s contains no header block without a Content-Length field.
NoBadHeader(s) ==
  \A i \in 1..(Len(s) - Len(BadHeader) + 1) :
     SubSeq(s, i, i + Len(BadHeader) - 1) # BadHeader

RECURSIVE ExpectedMessages(_)
\* The messages of a stream of frames, frame by frame: the body of every
\* frame whose body is JSON, nothing for a frame whose body is not.
ExpectedMessages(s) ==
  IF StartsWith(s, FrameOne)
  THEN <<<<"1">>>> \o ExpectedMessages(SubSeq(s, Len(FrameOne) + 1, Len(s)))
  ELSE IF StartsWith(s, FrameObject)
  THEN <<<<"{", "}">>>> \o ExpectedMessages(SubSeq(s, Len(FrameObject) + 1, Len(s)))
  ELSE IF StartsWith(s, FrameBadBody)
  THEN ExpectedMessages(SubSeq(s, Len(FrameBadBody) + 1, Len(s)))
  ELSE << >>

\* C16: a frame whose body is not JSON costs that frame alone.  A parse call
\* on a buffer that begins with such a frame ends as the same call on the
\* rest of the buffer would (the buffer advanced past exactly that frame,
\* nothing handed to handleMessage for it, the frames behind it decoded in
\* the same call); and once a stream of frames is delivered, the messages
\* handled are the bodies of its other frames, in order, with nothing left
\* in the buffer.
C16_BadBodySkipped ==
  /\ [][delivered' > delivered
          => LET buf == messageBuffer \o SubSeq(input, delivered + 1, delivered')
                 rest == SubSeq(buf, Len(FrameBadBody) + 1, Len(buf))
             IN StartsWith(buf, FrameBadBody)
                => /\ messageBuffer' = ParseLoop(rest, << >>).buffer
                   /\ decoded' = decoded \o ParseLoop(rest, << >>).messages
                   /\ UNCHANGED <<pendingRequests, settled, microtasks>>]_vars
  /\ []((delivered = Len(input) /\ NoBadHeader(input))
          => (decoded = ExpectedMessages(input) /\ messageBuffer = << >>))

\* A frame whose body is not JSON, then a good frame, in one chunk: the good
\* frame was decoded.
C16_Witness ==
  /\ input = FrameBadBody \o FrameOne
  /\ delivered = Len(input)
  /\ decoded = <<<<"1">>>>
  /\ messageBuffer = << >>

\* ========================================================= the tool layer
\* The MCP server's debug_launch and debug_terminate handlers over the
\* module-level `rustDebugger`.  Commands come one after the other.  Of the
\* engine only what touches the subprocess is kept: launch() spawns it when
\* the adapter binary is found and never kills it nor clears the handle,
\* terminate() kills it and clears the handle after its disconnect exchange.

\* A faulty variant: the instance held is dropped without being terminated.
HeldSessionNone == FALSE
\* `if (rustDebugger)` with a handle for terminate() to act on
HeldSession == rustDebugger # 0 /\ handles[rustDebugger] = "proc"

\* debug_launch, up to `await rustDebugger.terminate()`, which in turn runs
\* up to its `await this.sendRequest('disconnect', ...)`.
DebugLaunch ==
  /\ toolPc = "idle"
  /\ toolPc' = IF HeldSession THEN "launch:disconnect" ELSE "launch:new"
  /\ toolResult' = "none"
  /\ UNCHANGED <<instances, rustDebugger, handles, running, launched>>
  /\ UNCHANGED <<sessionVars, codecVars>>

\* terminate() after the disconnect exchange: kill, clear the handle.
ToolKill ==
  /\ running' = running \ {rustDebugger}
  /\ handles' = [handles EXCEPT ![rustDebugger] = "null"]

\* debug_launch, after terminate() returned.
DebugLaunchAfterTerminate ==
  /\ toolPc = "launch:disconnect"
  /\ ToolKill
  /\ toolPc' = "launch:new"
  /\ UNCHANGED <<instances, rustDebugger, toolResult, launched>>
  /\ UNCHANGED <<sessionVars, codecVars>>

\* `rustDebugger = new RustDebugger()` and launch() up to its first await:
\* the subprocess is spawned when the adapter binary is found.
DebugLaunchNew(found) ==
  /\ toolPc = "launch:new" /\ instances < MaxInstances
  /\ instances' = instances + 1
  /\ rustDebugger' = instances + 1
  /\ IF found
     THEN /\ handles' = [handles EXCEPT ![instances + 1] = "proc"]
          /\ running' = running \cup {instances + 1}
          /\ launched' = [launched EXCEPT ![instances + 1] = "pending"]
          /\ toolPc' = "launch:launching"
          /\ UNCHANGED toolResult
     ELSE /\ launched' = [launched EXCEPT ![instances + 1] = "failure"]
          /\ toolPc' = "idle"
          /\ toolResult' = "launch failed"
          /\ UNCHANGED <<handles, running>>
  /\ UNCHANGED <<sessionVars, codecVars>>

\* launch() returned, with success or with a failure partway through the
\* startup sequence (a request failed or timed out): either way the
\* subprocess and the handle stay as they are.
DebugLaunchReturn(ok) ==
  /\ toolPc = "launch:launching"
  /\ toolPc' = "idle"
  /\ toolResult' = IF ok THEN "launched" ELSE "launch failed"
  /\ launched' = [launched EXCEPT ![rustDebugger] = IF ok THEN "success" ELSE "failure"]
  /\ UNCHANGED <<instances, rustDebugger, handles, running>>
  /\ UNCHANGED <<sessionVars, codecVars>>

\* debug_terminate, up to terminate()'s await.
DebugTerminate ==
  /\ toolPc = "idle"
  /\ IF rustDebugger = 0
     THEN /\ toolResult' = "no session"
          /\ UNCHANGED <<toolPc, rustDebugger>>
     ELSE IF handles[rustDebugger] = "proc"
     THEN /\ toolPc' = "terminate:disconnect"
          /\ toolResult' = "none"
          /\ UNCHANGED rustDebugger
     ELSE /\ rustDebugger' = 0
          /\ toolResult' = "terminated"
          /\ UNCHANGED toolPc
  /\ UNCHANGED <<instances, handles, running, launched>>
  /\ UNCHANGED <<sessionVars, codecVars>>

\* debug_terminate, after terminate() returned: `rustDebugger = null`.
DebugTerminateAfterDisconnect ==
  /\ toolPc = "terminate:disconnect"
  /\ ToolKill
  /\ rustDebugger' = 0
  /\ toolPc' = "idle"
  /\ toolResult' = "terminated"
  /\ UNCHANGED <<instances, launched>>
  /\ UNCHANGED <<sessionVars, codecVars>>

\* An adapter subprocess exits on its own; the 'exit' handler only logs.
ToolAdapterExit(i) ==
  /\ i \in running
  /\ running' = running \ {i}
  /\ UNCHANGED <<instances, rustDebugger, handles, launched, toolPc, toolResult>>
  /\ UNCHANGED <<sessionVars, codecVars>>

ToolInit == SessionInit /\ CodecIdle /\ ToolIdle

ToolNext ==
  \/ DebugLaunch
  \/ DebugLaunchAfterTerminate
  \/ \E found \in BOOLEAN : DebugLaunchNew(found)
  \/ \E ok \in BOOLEAN : DebugLaunchReturn(ok)
  \/ DebugTerminate
  \/ DebugTerminateAfterDisconnect
  \/ \E i \in 1..MaxInstances : ToolAdapterExit(i)

SpecTools == ToolInit /\ [][ToolNext]_vars

\* C12: at most one adapter subprocess started by the server is alive, and
\* it is the one of the instance the tool layer holds.
C12_OneSession ==
  /\ Cardinality(running) <= 1
  /\ running \subseteq {rustDebugger}

\* A launch failed partway and left its subprocess running; the next
\* debug_launch terminated it and started the only subprocess now alive.
C12_Witness ==
  /\ instances >= 2 /\ rustDebugger = instances
  /\ launched[instances - 1] = "failure" /\ handles[instances - 1] = "null"
  /\ launched[instances] = "success"
  /\ running = {rustDebugger}

====
